---- MODULE Spec2Model ----
(***************************************************************************)
(* Model of scripts/data_cleaning.py: the loan-table cleaning pipeline run *)
(* by main(): remove_duplicates, handle_missing_values,                    *)
(* standardize_formats, validate_data_ranges, add_calculated_fields.       *)
(*                                                                         *)
(* A table (pandas DataFrame) is a sequence of rows; a row is a record     *)
(* whose domain is the table's columns.  A cell is <<>> when it is         *)
(* missing (NaN / NaT / None) and <<v>> when it holds v.                   *)
(* Text cells hold sequences of one-character strings.  Money is held in   *)
(* cents, interest_rate in percent, credit_score in half points (the       *)
(* median of integer scores has at most one half), loan_to_income in       *)
(* 1/10000.  A date cell holds <<"str", chars>> as loaded from the CSV and *)
(* <<"date", y, m, d>> once pd.to_datetime has parsed it.                  *)
(*                                                                         *)
(* In-place fills on a column selection (lines 55 and 60) are modelled as  *)
(* writing through to the frame, which is what pandas does when            *)
(* copy-on-write is off (every release before 3.0).                        *)
(***************************************************************************)
EXTENDS Integers, Sequences, FiniteSets, TLC

VARIABLES pc, df, given, before, removed, raw, first, rerun

vars == <<pc, df, given, before, removed, raw, first, rerun>>

\* Longest table of the general specification.
MaxLen == 2
\* Longest table of the duplicate-key specification.
DedupLen == 3

---------------------------------------------------------------------------
\* Cells

Absent == <<>>
Some(v) == <<v>>
isnull(c) == c = <<>>
Val(c) == c[1]

Chars(s) == [i \in 1..Len(s) |-> SubSeq(s, i, i)]

\* credit_score n, in half points
Pts(n) == 2 * n
\* an amount of d dollars and c cents, in cents
Usd(d, c) == 100 * d + c

---------------------------------------------------------------------------
\* Python str methods used by standardize_formats

LowerAlpha == Chars("abcdefghijklmnopqrstuvwxyz")
UpperAlpha == Chars("ABCDEFGHIJKLMNOPQRSTUVWXYZ")
Whitespace == {" ", "\t"}

islower(c) == \E i \in 1..Len(LowerAlpha) : LowerAlpha[i] = c
isupper(c) == \E i \in 1..Len(UpperAlpha) : UpperAlpha[i] = c
IndexIn(c, alpha) == CHOOSE i \in 1..Len(alpha) : alpha[i] = c
lower_char(c) == IF isupper(c) THEN LowerAlpha[IndexIn(c, UpperAlpha)] ELSE c
upper_char(c) == IF islower(c) THEN UpperAlpha[IndexIn(c, LowerAlpha)] ELSE c

\* str.lower()
str_lower(s) == [i \in 1..Len(s) |-> lower_char(s[i])]

\* str.title(): a cased character is upper-cased when the character before
\* it is uncased (or it is the first), lower-cased otherwise.
str_title(s) ==
    [i \in 1..Len(s) |->
        IF i > 1 /\ (islower(s[i - 1]) \/ isupper(s[i - 1]))
        THEN lower_char(s[i])
        ELSE upper_char(s[i])]

\* str.strip()
str_strip(s) ==
    LET keep == {i \in 1..Len(s) : s[i] \notin Whitespace}
    IN  IF keep = {} THEN <<>>
        ELSE LET lo == CHOOSE i \in keep : \A j \in keep : i <= j
                 hi == CHOOSE i \in keep : \A j \in keep : j <= i
             IN  SubSeq(s, lo, hi)

---------------------------------------------------------------------------
\* pd.to_datetime(errors='coerce') on the date texts the model loads:
\* ISO "YYYY-MM-DD" texts and words that are no date.

Digits == Chars("0123456789")
isdigit(c) == \E i \in 1..Len(Digits) : Digits[i] = c
DigitVal(c) == IndexIn(c, Digits) - 1
Num(s) ==
    LET F[i \in 0..Len(s)] == IF i = 0 THEN 0 ELSE 10 * F[i - 1] + DigitVal(s[i])
    IN  F[Len(s)]

IsLeap(y) == (y % 4 = 0 /\ y % 100 # 0) \/ y % 400 = 0
DaysIn(y, m) ==
    IF m = 2 THEN (IF IsLeap(y) THEN 29 ELSE 28)
    ELSE IF m \in {4, 6, 9, 11} THEN 30 ELSE 31

parse_date(s) ==
    IF /\ Len(s) = 10
       /\ s[5] = "-" /\ s[8] = "-"
       /\ \A i \in {1, 2, 3, 4, 6, 7, 9, 10} : isdigit(s[i])
    THEN LET y == Num(SubSeq(s, 1, 4))
             m == Num(SubSeq(s, 6, 7))
             d == Num(SubSeq(s, 9, 10))
         IN  IF y >= 1 /\ m \in 1..12 /\ d \in 1..DaysIn(y, m)
             THEN Some(<<"date", y, m, d>>)
             ELSE Absent
    ELSE Absent

to_datetime(c) ==
    IF isnull(c) THEN Absent
    ELSE IF Val(c)[1] = "date" THEN c
    ELSE parse_date(Val(c)[2])

---------------------------------------------------------------------------
\* remove_duplicates

\* the subset of drop_duplicates; missing cells compare equal
DedupKey(r) == <<r.customer_id, r.loan_amount, r.application_date>>

\* a drop_duplicates that keeps the last row of each group
drop_duplicates_keep_last(t) ==
    LET F[i \in 0..Len(t)] ==
            IF i = 0 THEN <<>>
            ELSE IF \E j \in (i + 1)..Len(t) : DedupKey(t[j]) = DedupKey(t[i])
                 THEN F[i - 1]
                 ELSE Append(F[i - 1], t[i])
    IN  F[Len(t)]

\* DataFrame.drop_duplicates(subset=...), keep='first'
drop_duplicates(t) ==
    LET F[i \in 0..Len(t)] ==
            IF i = 0 THEN <<>>
            ELSE IF \E j \in 1..(i - 1) : DedupKey(t[j]) = DedupKey(t[i])
                 THEN F[i - 1]
                 ELSE Append(F[i - 1], t[i])
    IN  F[Len(t)]

remove_duplicates(t) ==
    LET out == drop_duplicates(t)
    IN  [ret |-> out, arg |-> t, removed |-> Len(t) - Len(out)]

---------------------------------------------------------------------------
\* handle_missing_values

critical_fields == {"loan_id", "customer_id", "loan_amount", "loan_status"}

\* DataFrame.dropna(subset=fields): a new frame
dropna(t, fields) ==
    LET Complete(r) == \A f \in fields : ~isnull(r[f])
    IN  SelectSeq(t, Complete)

RECURSIVE Insert(_, _)
Insert(x, s) ==
    IF s = <<>> THEN <<x>>
    ELSE IF x <= Head(s) THEN <<x>> \o s
    ELSE <<Head(s)>> \o Insert(x, Tail(s))

RECURSIVE Sort(_)
Sort(s) == IF s = <<>> THEN <<>> ELSE Insert(Head(s), Sort(Tail(s)))

\* the present values of column f, in row order
Present(t, f) ==
    LET F[i \in 0..Len(t)] ==
            IF i = 0 THEN <<>>
            ELSE IF isnull(t[i][f]) THEN F[i - 1]
            ELSE Append(F[i - 1], Val(t[i][f]))
    IN  F[Len(t)]

\* a fill value that is the mean, not the median
mean(t, f) ==
    LET s == Present(t, f)
        Sum[i \in 0..Len(s)] == IF i = 0 THEN 0 ELSE Sum[i - 1] + s[i]
    IN  IF Len(s) = 0 THEN Absent ELSE Some(Sum[Len(s)] \div Len(s))

\* Series.median(): missing cells are skipped; NaN when none is present
median(t, f) ==
    LET s == Sort(Present(t, f))
        n == Len(s)
    IN  IF n = 0 THEN Absent
        ELSE IF n % 2 = 1 THEN Some(s[(n + 1) \div 2])
        ELSE Some((s[n \div 2] + s[n \div 2 + 1]) \div 2)

\* Series.fillna(c, inplace=True) on column f; filling with NaN fills nothing
fillna(t, f, c) ==
    [i \in 1..Len(t) |-> IF isnull(t[i][f]) THEN [t[i] EXCEPT ![f] = c] ELSE t[i]]

fill_credit_score(t) ==
    IF \E i \in 1..Len(t) : isnull(t[i].credit_score)
    THEN fillna(t, "credit_score", median(t, "credit_score"))
    ELSE t

\* an employment_length fill that fills nothing
fill_employment_length_skipped(t) == t

fill_employment_length(t) ==
    IF \E i \in 1..Len(t) : isnull(t[i].employment_length)
    THEN fillna(t, "employment_length", Some(0))
    ELSE t

\* a handle_missing_values that drops and fills in the frame it was passed
handle_missing_values_in_place(t) ==
    LET kept == dropna(t, critical_fields)
        out == fill_employment_length(fill_credit_score(kept))
    IN  [ret |-> out, arg |-> out, removed |-> Len(t) - Len(kept)]

handle_missing_values(t) ==
    LET kept == dropna(t, critical_fields)
    IN  [ret |-> fill_employment_length(fill_credit_score(kept)),
         arg |-> t,
         removed |-> Len(t) - Len(kept)]

---------------------------------------------------------------------------
\* standardize_formats

status_keys ==
    <<Chars("fully paid"), Chars("current"), Chars("charged off"),
      Chars("late (31-120 days)"), Chars("late (16-30 days)")>>
status_labels ==
    <<Chars("Fully Paid"), Chars("Current"), Chars("Charged Off"),
      Chars("Late (31-120 days)"), Chars("Late (16-30 days)")>>

InMapping(x) == \E k \in 1..Len(status_keys) : status_keys[k] = x
\* status_mapping.get(x, x.title())
status_mapping_get(x) ==
    IF InMapping(x)
    THEN status_labels[CHOOSE k \in 1..Len(status_keys) : status_keys[k] = x]
    ELSE str_title(x)

\* df['loan_status'].str.lower().map(...), then .str.strip()
standardize_status(c) ==
    IF isnull(c) THEN Absent
    ELSE Some(str_strip(status_mapping_get(str_lower(Val(c)))))

strip_cell(c) == IF isnull(c) THEN Absent ELSE Some(str_strip(Val(c)))

standardize_row(r) ==
    [r EXCEPT !.loan_status = standardize_status(r.loan_status),
              !.purpose = strip_cell(r.purpose),
              !.application_date = to_datetime(r.application_date),
              !.approval_date = to_datetime(r.approval_date),
              !.disbursement_date = to_datetime(r.disbursement_date)]

\* the columns are assigned into the frame that was passed, which is returned
standardize_formats(t) ==
    LET out == [i \in 1..Len(t) |-> standardize_row(t[i])]
    IN  [ret |-> out, arg |-> out]

---------------------------------------------------------------------------
\* validate_data_ranges: a comparison with a missing cell is False

amount_ok(r) == ~isnull(r.loan_amount) /\ Val(r.loan_amount) > 0
\* a rate check without the lower bound
rate_ok_no_lower(r) == ~isnull(r.interest_rate) /\ Val(r.interest_rate) <= 50

rate_ok(r) ==
    /\ ~isnull(r.interest_rate)
    /\ Val(r.interest_rate) >= 0
    /\ Val(r.interest_rate) <= 50
score_ok(r) ==
    /\ ~isnull(r.credit_score)
    /\ Val(r.credit_score) >= Pts(300)
    /\ Val(r.credit_score) <= Pts(850)
income_ok(r) == ~isnull(r.annual_income) /\ Val(r.annual_income) > 0

validate_data_ranges(t) ==
    LET t1 == SelectSeq(t, amount_ok)
        t2 == SelectSeq(t1, rate_ok)
        t3 == SelectSeq(t2, score_ok)
        t4 == SelectSeq(t3, income_ok)
    IN  [ret |-> t4, arg |-> t, removed |-> Len(t) - Len(t4)]

---------------------------------------------------------------------------
\* add_calculated_fields

\* n / d to k decimal places, as an integer count of 10^-k, rounded to the
\* nearest with halves to even (numpy round); by long division, n >= 0, d > 0
RoundDiv(n, d, k) ==
    LET F[i \in 0..k] ==
            IF i = 0 THEN [q |-> n \div d, r |-> n % d]
            ELSE [q |-> 10 * F[i - 1].q + (10 * F[i - 1].r) \div d,
                  r |-> (10 * F[i - 1].r) % d]
        q == F[k].q
        r == F[k].r
    IN  IF 2 * r < d THEN q
        ELSE IF 2 * r > d THEN q + 1
        ELSE IF q % 2 = 0 THEN q ELSE q + 1

\* (loan_amount / annual_income).round(4), in 1/10000
loan_to_income(r) ==
    IF isnull(r.loan_amount) \/ isnull(r.annual_income) \/ r.annual_income = Some(0)
    THEN Absent
    ELSE Some(RoundDiv(Val(r.loan_amount), Val(r.annual_income), 4))

\* (monthly_payment * loan_term - loan_amount).round(2), in cents
total_interest(r) ==
    IF isnull(r.monthly_payment) \/ isnull(r.loan_term) \/ isnull(r.loan_amount)
    THEN Absent
    ELSE Some(Val(r.monthly_payment) * Val(r.loan_term) - Val(r.loan_amount))

\* a bin edge: <<n>>, or <<>> for float('inf')
Inf == <<>>
Below(x, edge) == edge = Inf \/ x <= Val(edge)
Above(x, edge) == edge # Inf /\ x > Val(edge)

\* a cut with left-closed, right-open bins (right=False)
cut_left_closed(c, bins, labels) ==
    IF isnull(c) THEN Absent
    ELSE LET hit == {k \in 1..Len(labels) :
                        /\ bins[k] # Inf /\ Val(c) >= Val(bins[k])
                        /\ (bins[k + 1] = Inf \/ Val(c) < Val(bins[k + 1]))}
         IN  IF hit = {} THEN Absent ELSE Some(labels[CHOOSE k \in hit : TRUE])

\* pd.cut(x, bins, labels), right=True: bin k is (bins[k], bins[k+1]];
\* a value in no bin, or a missing value, gets no label
cut(c, bins, labels) ==
    IF isnull(c) THEN Absent
    ELSE LET hit == {k \in 1..Len(labels) :
                        Above(Val(c), bins[k]) /\ Below(Val(c), bins[k + 1])}
         IN  IF hit = {} THEN Absent ELSE Some(labels[CHOOSE k \in hit : TRUE])

loan_category(r) ==
    cut(r.loan_amount,
        <<Some(Usd(0, 0)), Some(Usd(10000, 0)), Some(Usd(25000, 0)), Inf>>,
        <<"Small", "Medium", "Large">>)

credit_band(r) ==
    cut(r.credit_score,
        <<Some(Pts(0)), Some(Pts(600)), Some(Pts(650)), Some(Pts(700)),
          Some(Pts(750)), Some(Pts(850))>>,
        <<"Very Poor", "Poor", "Fair", "Good", "Excellent">>)

enrich_row(r) ==
    [loan_to_income |-> loan_to_income(r),
     total_interest |-> total_interest(r),
     loan_category |-> loan_category(r),
     credit_band |-> credit_band(r)] @@ r

\* the columns are assigned into the frame that was passed, which is returned
add_calculated_fields(t) ==
    LET out == [i \in 1..Len(t) |-> enrich_row(t[i])]
    IN  [ret |-> out, arg |-> out]

---------------------------------------------------------------------------
\* Input tables (what load_data returns)

Text(s) == Some(Chars(s))
DateText(s) == Some(<<"str", Chars(s)>>)

Base ==
    [loan_id |-> Some("L0"),
     customer_id |-> Some("C1"),
     loan_amount |-> Some(Usd(10000, 0)),
     annual_income |-> Some(Usd(60000, 0)),
     monthly_payment |-> Some(Usd(500, 0)),
     interest_rate |-> Some(10),
     credit_score |-> Some(Pts(650)),
     employment_length |-> Some(5),
     loan_status |-> Text("current"),
     purpose |-> Text(" car "),
     application_date |-> DateText("2023-01-05"),
     approval_date |-> DateText("2023-01-09"),
     disbursement_date |-> Absent,
     loan_term |-> Some(36)]

LoanIds == <<"L1", "L2", "L3", "L4", "L5">>

\* loan_id by position, so that rows of one table can be told apart
Stamp(t) ==
    [i \in 1..Len(t) |->
        IF isnull(t[i].loan_id) THEN t[i]
        ELSE [t[i] EXCEPT !.loan_id = Some(LoanIds[i])]]

Tables(rows, n) == UNION {[1..k -> rows] : k \in 0..n}

Pool ==
    {Base,
     [Base EXCEPT !.application_date = DateText("pending")],
     [Base EXCEPT !.application_date = DateText("tbd")],
     [Base EXCEPT !.application_date = Absent],
     [Base EXCEPT !.monthly_payment = Absent],
     [Base EXCEPT !.loan_term = Absent],
     [Base EXCEPT !.loan_amount = Some(0)],
     [Base EXCEPT !.loan_amount = Absent],
     [Base EXCEPT !.interest_rate = Some(-1)],
     [Base EXCEPT !.interest_rate = Some(75)],
     [Base EXCEPT !.interest_rate = Absent],
     [Base EXCEPT !.credit_score = Some(Pts(299))],
     [Base EXCEPT !.credit_score = Some(Pts(851))],
     [Base EXCEPT !.credit_score = Absent],
     [Base EXCEPT !.annual_income = Some(0)],
     [Base EXCEPT !.annual_income = Absent],
     [Base EXCEPT !.loan_id = Absent],
     [Base EXCEPT !.customer_id = Absent],
     [Base EXCEPT !.loan_status = Absent],
     [Base EXCEPT !.employment_length = Absent],
     [Base EXCEPT !.loan_status = Text("  Late (31-120 Days) ")],
     [Base EXCEPT !.interest_rate = Some(75), !.annual_income = Some(0)],
     [Base EXCEPT !.customer_id = Some("C2"), !.credit_score = Some(Pts(300)),
                  !.interest_rate = Some(0), !.loan_amount = Some(Usd(25000, 1)),
                  !.employment_length = Absent, !.loan_status = Text("FULLY PAID")],
     [Base EXCEPT !.customer_id = Some("C2"), !.credit_score = Some(Pts(850)),
                  !.interest_rate = Some(50),
                  !.application_date = DateText("2023-02-30"),
                  !.loan_status = Text("in review")]}

\* rows that differ in the duplicate key only
DedupPool ==
    {[Base EXCEPT !.customer_id = c, !.application_date = d] :
        c \in {Some("C1"), Some("C2"), Absent},
        d \in {DateText("2023-01-05"), DateText("pending"), Absent}}
    \cup {[Base EXCEPT !.loan_amount = Absent]}

Start(t) ==
    /\ raw = t
    /\ df = t
    /\ pc = "loaded"
    /\ given = <<>>
    /\ before = <<>>
    /\ removed = 0
    /\ first = <<>>
    /\ rerun = FALSE

CustomerIds == <<"C1", "C2", "C3", "C4", "C5">>

\* customer_id by position: no two rows of the table share a customer
Spread(t) ==
    [i \in 1..Len(t) |->
        IF isnull(t[i].customer_id) THEN t[i]
        ELSE [t[i] EXCEPT !.customer_id = Some(CustomerIds[i])]]

Init ==
    \E t \in Tables(Pool, MaxLen), spread \in BOOLEAN :
        Start(Stamp(IF spread THEN Spread(t) ELSE t))

InitDedup == \E t \in Tables(DedupPool, DedupLen) : Start(Stamp(t))

\* The end-to-end scenario: two valid rows, an exact duplicate of one of
\* them, a row without credit_score, a row with interest_rate 75; in any order.
ScenarioScores == {Pts(580), Pts(640), Pts(810)}

ScenarioRows(a, b, c, dupOfA) ==
    LET A == [Base EXCEPT !.loan_id = Some("LA"), !.customer_id = Some("C1"),
                          !.credit_score = Some(a)]
        B == [Base EXCEPT !.loan_id = Some("LB"), !.customer_id = Some("C2"),
                          !.credit_score = Some(b)]
        M == [Base EXCEPT !.loan_id = Some("LM"), !.customer_id = Some("C3"),
                          !.credit_score = Absent]
        R == [Base EXCEPT !.loan_id = Some("LR"), !.customer_id = Some("C4"),
                          !.credit_score = Some(c), !.interest_rate = Some(75)]
    IN  <<A, B, IF dupOfA THEN A ELSE B, M, R>>

InitScenario ==
    \E a \in ScenarioScores, b \in ScenarioScores, c \in ScenarioScores,
       dupOfA \in BOOLEAN, order \in Permutations(1..5) :
        Start([i \in 1..5 |-> ScenarioRows(a, b, c, dupOfA)[order[i]]])

\* Status texts: every mapping key and some texts outside the mapping, in
\* lower, upper and label case, bare and padded with whitespace.
StatusLen == 1

str_upper(s) == [i \in 1..Len(s) |-> upper_char(s[i])]

StatusWords ==
    {status_keys[k] : k \in 1..Len(status_keys)}
    \cup {Chars("unknown status"), Chars("in review"), Chars("default")}

StatusTexts ==
    {l \o w \o r :
        w \in UNION {{x, str_upper(x), str_title(x)} : x \in StatusWords}
              \cup {status_labels[k] : k \in 1..Len(status_labels)},
        l \in {<<>>, <<" ">>, <<" ", " ">>},
        r \in {<<>>, <<" ">>}}

InitStatus ==
    \E t \in Tables({[Base EXCEPT !.loan_status = Some(x)] : x \in StatusTexts},
                    StatusLen) :
        Start(Stamp(Spread(t)))

\* Amounts and scores on and around every bin edge
BucketLen == 1

BucketAmounts ==
    {Usd(0, 1), Usd(10000, 0), Usd(10000, 1), Usd(25000, 0), Usd(25000, 1),
     Usd(900000, 0)}
BucketScores ==
    {Pts(300), Pts(600), Pts(601), Pts(650), Pts(650) + 1, Pts(651), Pts(700),
     Pts(701), Pts(750), Pts(751), Pts(850)}

InitBucket ==
    \E t \in Tables({[Base EXCEPT !.loan_amount = Some(x), !.credit_score = Some(y)] :
                        x \in BucketAmounts, y \in BucketScores}, BucketLen) :
        Start(Stamp(Spread(t)))

---------------------------------------------------------------------------
\* main(): the five stages in order; df is rebound to each stage's result.
\* given is the frame a stage was passed, as it is after the stage returned;
\* before is that frame as it was when the stage was called.

MainRemoveDuplicates ==
    /\ pc = "loaded"
    /\ LET r == remove_duplicates(df)
       IN  /\ df' = r.ret
           /\ given' = r.arg
           /\ removed' = r.removed
    /\ before' = df
    /\ pc' = "deduped"
    /\ UNCHANGED <<raw, first, rerun>>

MainHandleMissingValues ==
    /\ pc = "deduped"
    /\ LET r == handle_missing_values(df)
       IN  /\ df' = r.ret
           /\ given' = r.arg
           /\ removed' = r.removed
    /\ before' = df
    /\ pc' = "filled"
    /\ UNCHANGED <<raw, first, rerun>>

MainStandardizeFormats ==
    /\ pc = "filled"
    /\ LET r == standardize_formats(df)
       IN  /\ df' = r.ret
           /\ given' = r.arg
    /\ before' = df
    /\ pc' = "standardized"
    /\ UNCHANGED <<raw, first, rerun, removed>>

MainValidateDataRanges ==
    /\ pc = "standardized"
    /\ LET r == validate_data_ranges(df)
       IN  /\ df' = r.ret
           /\ given' = r.arg
           /\ removed' = r.removed
    /\ before' = df
    /\ pc' = "validated"
    /\ UNCHANGED <<raw, first, rerun>>

MainAddCalculatedFields ==
    /\ pc = "validated"
    /\ LET r == add_calculated_fields(df)
       IN  /\ df' = r.ret
           /\ given' = r.arg
    /\ before' = df
    /\ pc' = "enriched"
    /\ UNCHANGED <<raw, first, rerun, removed>>

\* the five stages are run again on the table the first run produced
MainAgain ==
    /\ pc = "enriched"
    /\ ~rerun
    /\ first' = df
    /\ raw' = df
    /\ rerun' = TRUE
    /\ pc' = "loaded"
    /\ given' = <<>>
    /\ before' = <<>>
    /\ removed' = 0
    /\ UNCHANGED df

Next ==
    \/ MainRemoveDuplicates
    \/ MainHandleMissingValues
    \/ MainStandardizeFormats
    \/ MainValidateDataRanges
    \/ MainAddCalculatedFields
    \/ MainAgain

Spec == Init /\ [][Next]_vars

SpecDedup == InitDedup /\ [][Next]_vars

SpecScenario == InitScenario /\ [][Next]_vars

SpecStatus == InitStatus /\ [][Next]_vars

SpecBucket == InitBucket /\ [][Next]_vars

---------------------------------------------------------------------------
\* Properties

\* two rows carry the same (customer_id, loan_amount, application_date);
\* a missing component equals a missing component
SameTriple(r1, r2) ==
    /\ r1.customer_id = r2.customer_id
    /\ r1.loan_amount = r2.loan_amount
    /\ r1.application_date = r2.application_date

Rows(t) == {t[i] : i \in 1..Len(t)}
Ids(t) == {t[i].loan_id : i \in 1..Len(t)}

\* C1: the table handed to the writer holds no two rows with the same
\* (customer_id, loan_amount, application_date), the date being the parsed
\* one.
C1_NoDuplicateTripleInOutput ==
    pc = "enriched" =>
        \A i \in 1..Len(df), j \in 1..Len(df) :
            i # j => ~SameTriple(df[i], df[j])

\* C2: the five stages run on the first run's output give that output back.
C2_PipelineIdempotent ==
    (pc = "enriched" /\ rerun) => df = first

Derived == {"loan_to_income", "total_interest", "loan_category", "credit_band"}

\* C3: every row of the table handed to the writer has the four derived
\* fields present.
C3_DerivedFieldsPresent ==
    pc = "enriched" =>
        \A i \in 1..Len(df) : \A f \in Derived : ~isnull(df[i][f])

ScenarioRow(t, id) == CHOOSE r \in Rows(t) : r.loan_id = Some(id)
ScenarioScore(t, id) == Val(ScenarioRow(t, id).credit_score)
ScenarioOutput ==
    /\ Len(df) = 3
    /\ Ids(df) = {Some("LA"), Some("LB"), Some("LM")}

\* C4 as claimed: the scenario yields the two valid rows and the filled row,
\* and the filled score is the median of the other two output rows' scores.
C4_FilledWithMedianOfOutput ==
    (pc = "enriched" /\ ~rerun) =>
        /\ ScenarioOutput
        /\ 2 * ScenarioScore(df, "LM")
             = ScenarioScore(df, "LA") + ScenarioScore(df, "LB")

\* v is the middle one of a, b, c
Middle(v, a, b, c) ==
    /\ v \in {a, b, c}
    /\ Cardinality({k \in 1..3 : <<a, b, c>>[k] <= v}) >= 2
    /\ Cardinality({k \in 1..3 : <<a, b, c>>[k] >= v}) >= 2

\* C4 as amended: the scenario yields the two valid rows and the filled row,
\* and the filled score is the median of the scores of the two valid rows
\* and of the row with interest_rate 75, which is dropped only later.
C4_FilledWithMedianBeforeValidation ==
    (pc = "enriched" /\ ~rerun) =>
        /\ ScenarioOutput
        /\ Middle(ScenarioScore(df, "LM"), ScenarioScore(raw, "LA"),
                  ScenarioScore(raw, "LB"), ScenarioScore(raw, "LR"))
        /\ ScenarioRow(df, "LA").credit_score = ScenarioRow(raw, "LA").credit_score
        /\ ScenarioRow(df, "LB").credit_score = ScenarioRow(raw, "LB").credit_score

\* the filled score is the dropped row's score and neither valid row's
C4_Witness ==
    /\ pc = "enriched" /\ ~rerun
    /\ ScenarioOutput
    /\ ScenarioScore(df, "LM") = ScenarioScore(raw, "LR")
    /\ ScenarioScore(df, "LM") # ScenarioScore(raw, "LA")
    /\ ScenarioScore(df, "LM") # ScenarioScore(raw, "LB")

LabelOf(k) == status_labels[CHOOSE i \in 1..Len(status_keys) : status_keys[i] = k]

\* C5: a status that is a mapping key once trimmed and lower-cased becomes
\* that key's label; a bare title-case status outside the mapping is kept.
C5_StatusCaseAndSpaceInsensitive ==
    (pc = "standardized" /\ ~rerun) =>
        \A i \in 1..Len(df) :
            LET x == Val(before[i].loan_status)
                k == str_lower(str_strip(x))
            IN  /\ InMapping(k) => df[i].loan_status = Some(LabelOf(k))
                /\ (~InMapping(k) /\ str_title(x) = x /\ str_strip(x) = x)
                      => df[i].loan_status = Some(x)

\* the first row of t with the triple of t[i]
FirstOfGroup(t, i) ==
    CHOOSE j \in 1..Len(t) :
        /\ SameTriple(t[j], t[i])
        /\ \A m \in 1..Len(t) : SameTriple(t[m], t[i]) => j <= m

\* C6: remove_duplicates keeps of every group of rows with the same triple
\* exactly the first, keeps the rows in their order, and reports the number
\* of rows it dropped.
C6_DedupKeepsFirstInOrder ==
    pc = "deduped" =>
        /\ \A i \in 1..Len(before) :
              LET S == {k \in 1..Len(df) : SameTriple(df[k], before[i])}
              IN  /\ Cardinality(S) = 1
                  /\ \A k \in S : df[k] = before[FirstOfGroup(before, i)]
        /\ \A k \in 1..Len(df) : df[k] \in Rows(before)
        /\ \A k1 \in 1..Len(df), k2 \in 1..Len(df) :
              k1 < k2 =>
                  \E i1 \in 1..Len(before), i2 \in 1..Len(before) :
                      i1 < i2 /\ before[i1] = df[k1] /\ before[i2] = df[k2]
        /\ removed = Len(before) - Len(df)

\* a group of two rows, not adjacent, whose customer_id is missing
C6_Witness ==
    /\ pc = "deduped" /\ ~rerun
    /\ Len(before) = 3
    /\ isnull(before[1].customer_id)
    /\ SameTriple(before[1], before[3])
    /\ ~SameTriple(before[1], before[2])
    /\ df = <<before[1], before[2]>>
    /\ removed = 1

InRange(r) ==
    /\ ~isnull(r.loan_amount) /\ Val(r.loan_amount) > 0
    /\ ~isnull(r.annual_income) /\ Val(r.annual_income) > 0
    /\ ~isnull(r.interest_rate)
    /\ 0 <= Val(r.interest_rate) /\ Val(r.interest_rate) <= 50
    /\ ~isnull(r.credit_score)
    /\ Pts(300) <= Val(r.credit_score) /\ Val(r.credit_score) <= Pts(850)

\* C7: validate_data_ranges returns exactly the rows in range, in order, and
\* reports the number of rows out of range, each once; every row handed to
\* add_calculated_fields is in range.
C7_RangeInvariant ==
    /\ pc = "validated" =>
          /\ df = SelectSeq(before, InRange)
          /\ removed = Cardinality({i \in 1..Len(before) : ~InRange(before[i])})
    /\ pc = "enriched" => \A i \in 1..Len(before) : InRange(before[i])

\* a row failing two predicates is counted once, next to a row that is kept
C7_Witness ==
    /\ pc = "validated" /\ ~rerun
    /\ Len(before) = 2 /\ Len(df) = 1
    /\ removed = 1
    /\ \E i \in 1..2 :
          /\ before[i].interest_rate = Some(75)
          /\ before[i].annual_income = Some(0)

Required ==
    {"loan_id", "customer_id", "loan_amount", "loan_status", "credit_score",
     "employment_length"}

\* C8: every row handed to the writer has loan_id, customer_id, loan_amount,
\* loan_status, credit_score and employment_length; after
\* handle_missing_values no row lacks loan_id, customer_id, loan_amount or
\* loan_status.
C8_RequiredFieldsPresent ==
    /\ pc = "enriched" =>
          \A i \in 1..Len(df) : \A f \in Required : ~isnull(df[i][f])
    /\ pc = "filled" =>
          \A i \in 1..Len(df) :
              \A f \in {"loan_id", "customer_id", "loan_amount", "loan_status"} :
                  ~isnull(df[i][f])

\* a row loaded without credit_score and a row loaded without
\* employment_length both reach the writer
C8_Witness ==
    /\ pc = "enriched" /\ ~rerun
    /\ \E i \in 1..Len(raw) :
          isnull(raw[i].credit_score) /\ raw[i].loan_id \in Ids(df)
    /\ \E i \in 1..Len(raw) :
          isnull(raw[i].employment_length) /\ raw[i].loan_id \in Ids(df)

\* C9: loan_amount in (0, 10000] is Small, in (10000, 25000] Medium, above
\* 25000 Large; credit_score in (0, 600] is Very Poor, (600, 650] Poor,
\* (650, 700] Fair, (700, 750] Good, (750, 850] Excellent.
C9_Bucketing ==
    pc = "enriched" =>
        \A i \in 1..Len(df) :
            LET x == Val(df[i].loan_amount)
                y == Val(df[i].credit_score)
            IN  /\ df[i].loan_category =
                      IF x <= Usd(10000, 0) THEN Some("Small")
                      ELSE IF x <= Usd(25000, 0) THEN Some("Medium")
                      ELSE Some("Large")
                /\ df[i].credit_band =
                      IF y <= Pts(600) THEN Some("Very Poor")
                      ELSE IF y <= Pts(650) THEN Some("Poor")
                      ELSE IF y <= Pts(700) THEN Some("Fair")
                      ELSE IF y <= Pts(750) THEN Some("Good")
                      ELSE Some("Excellent")

\* 10000 is Small and 650 is Poor
C9_Witness ==
    /\ pc = "enriched" /\ ~rerun
    /\ \E i \in 1..Len(df) :
          /\ df[i].loan_amount = Some(Usd(10000, 0))
          /\ df[i].loan_category = Some("Small")
          /\ df[i].credit_score = Some(Pts(650))
          /\ df[i].credit_band = Some("Poor")

\* C10 as claimed: no stage changes the table it was given.
C10_StagesLeaveInputUnchanged ==
    pc # "loaded" => given = before

\* C10 as amended: remove_duplicates, handle_missing_values and
\* validate_data_ranges leave the table they were given unchanged;
\* standardize_formats and add_calculated_fields write their result into the
\* table they were given and return that table.
C10_OnlyAssigningStagesChangeInput ==
    /\ pc \in {"deduped", "filled", "validated"} => given = before
    /\ pc \in {"standardized", "enriched"} => given = df

\* standardize_formats has changed the table it was given
C10_Witness ==
    /\ pc = "standardized" /\ ~rerun
    /\ given # before
    /\ given = df

====
